---- MODULE Spec2Model ----
(***************************************************************************)
(* Task Report QA service (backend/app.py): the in-memory report store,    *)
(* the upload-report and ask-question handlers running as tasks of one     *)
(* asyncio event loop, the lazily constructed LLM client, and the pure     *)
(* function parse_suggestions.                                             *)
(*                                                                         *)
(* Text is a sequence of one-character strings.  Bytes are naturals.       *)
(***************************************************************************)
EXTENDS Integers, Sequences, FiniteSets, TLC

\* ------------------------------------------------------------------ bounds

\* Lines per generated completion text (parser specification).
MaxLines == 4
\* Length of the exhaustively generated character strings (parser specification).
MaxChars == 4
\* Requests handled in one run of the service.
MaxReqs == 2

\* ------------------------------------------------------- characters, text

\* str.isdigit on the characters the model uses.
isdigit(c) == c \in {"1", "2", "3"}

\* str.isalpha on the characters the model uses: the ASCII letters.
isalpha(c) ==
    c \in {"a", "b", "c", "d", "e", "f", "g", "h", "i", "j", "k", "l", "m", "n",
           "o", "p", "q", "r", "s", "t", "u", "v", "w", "x", "y", "z",
           "A", "B", "C", "D", "E", "F", "G", "H", "I", "J", "K", "L", "M", "N",
           "O", "P", "Q", "R", "S", "T", "U", "V", "W", "X", "Y", "Z"}

\* The characters str.strip() removes.
isspace(c) == c \in {" ", "\n", "\t"}

\* s[i:] for a 0-based index i.
SliceFrom(s, i) == SubSeq(s, i + 1, Len(s))

\* s[:n].
SliceTo(s, n) == SubSeq(s, 1, IF n < Len(s) THEN n ELSE Len(s))

RECURSIVE lstrip(_)
lstrip(s) ==
    IF s # <<>> /\ isspace(Head(s)) THEN lstrip(Tail(s)) ELSE s

RECURSIVE rstrip(_)
rstrip(s) ==
    IF s # <<>> /\ isspace(s[Len(s)]) THEN rstrip(SubSeq(s, 1, Len(s) - 1)) ELSE s

\* str.strip()
strip(s) == rstrip(lstrip(s))

\* str.split('\n'): the pieces between newlines; one piece more than there are
\* newlines, so the empty text gives one empty piece.
RECURSIVE split_from(_, _, _)
split_from(s, i, cur) ==
    IF i > Len(s) THEN <<cur>>
    ELSE IF s[i] = "\n" THEN <<cur>> \o split_from(s, i + 1, <<>>)
    ELSE split_from(s, i + 1, Append(cur, s[i]))

split(s) == split_from(s, 1, <<>>)

\* '?' in s, any(char.isdigit() for char in s)
contains(s, c) == \E i \in 1..Len(s) : s[i] = c

any_isdigit(s) == \E i \in 1..Len(s) : isdigit(s[i])

\* ------------------------------------------------------ parse_suggestions

\* line[:2], the window the header test looks at.
HeaderWindow == 2
\* len(questions) < 3, the count below which the header test applies.
HeaderSkipBelow == 3
\* `if i > 5: break` of the prefix scan.
ScanBreakIndex == 5
\* len(cleaned) > 10
MinPlainLen == 10
\* questions[:3]
MaxSuggestions == 3

fallback_suggestions ==
    << <<"W","h","a","t"," ","w","e","r","e"," ","t","h","e"," ","m","a","i","n"," ",
         "c","h","a","l","l","e","n","g","e","s","?">>,
       <<"W","h","a","t","'","s"," ","p","l","a","n","n","e","d"," ","f","o","r"," ",
         "n","e","x","t"," ","w","e","e","k","?">>,
       <<"I","s"," ","t","h","e"," ","t","i","m","e","l","i","n","e"," ","o","n"," ",
         "t","r","a","c","k","?">> >>

\* lines = [line.strip() for line in suggestions_text.split('\n') if line.strip()]
RECURSIVE stripped_nonempty(_)
stripped_nonempty(pieces) ==
    IF pieces = <<>> THEN <<>>
    ELSE (IF strip(Head(pieces)) # <<>> THEN <<strip(Head(pieces))>> ELSE <<>>)
         \o stripped_nonempty(Tail(pieces))

split_lines(suggestions_text) == stripped_nonempty(split(suggestions_text))

\* Mutant of is_header_skip: the header test is lifted after the first
\* accepted suggestion instead of the third.
is_header_skip_once(line, questions) ==
    ~any_isdigit(SliceTo(line, HeaderWindow)) /\ Len(questions) < 1

\* The header test of the loop: the line is skipped.
is_header_skip(line, questions) ==
    ~any_isdigit(SliceTo(line, HeaderWindow)) /\ Len(questions) < HeaderSkipBelow

\* The prefix scan, `for i, char in enumerate(line)`, from 0-based index i on:
\* the letter test comes first, the `i > 5` break after it.
RECURSIVE scan_prefix(_, _)
scan_prefix(line, i) ==
    IF i >= Len(line) THEN line
    ELSE IF isalpha(line[i + 1]) THEN SliceFrom(line, i)
    ELSE IF i > ScanBreakIndex THEN line
    ELSE scan_prefix(line, i + 1)

clean_line(line) == scan_prefix(line, 0)

\* Mutant of accepts: the length branch is missing.
accepts_question_only(cleaned) == cleaned # <<>> /\ contains(cleaned, "?")

\* The acceptance test on the cleaned line.
accepts(cleaned) ==
    \/ cleaned # <<>> /\ contains(cleaned, "?")
    \/ cleaned # <<>> /\ Len(cleaned) > MinPlainLen

\* One iteration of `for line in lines`.
loop_body(questions, line) ==
    IF is_header_skip(line, questions) THEN questions
    ELSE IF accepts(clean_line(line)) THEN Append(questions, strip(clean_line(line)))
    ELSE questions

RECURSIVE loop_lines(_, _)
loop_lines(questions, lines) ==
    IF lines = <<>> THEN questions
    ELSE loop_lines(loop_body(questions, Head(lines)), Tail(lines))

\* Mutant of truncate_or_fallback: the [:3] is missing.
no_truncate(questions) ==
    IF questions # <<>> THEN questions ELSE fallback_suggestions

\* return questions[:3] if questions else [fallback]
truncate_or_fallback(questions) ==
    IF questions # <<>> THEN SliceTo(questions, MaxSuggestions) ELSE fallback_suggestions

parse_suggestions(suggestions_text) ==
    truncate_or_fallback(loop_lines(<<>>, split_lines(suggestions_text)))

\* ------------------------------------------------------------ upload bytes

\* bytes.decode("utf-8") on byte strings of one- and two-byte sequences (every
\* byte the model uploads is below 0xE0): [ok |-> FALSE] is UnicodeDecodeError.
RECURSIVE utf8_from(_, _, _)
utf8_from(b, i, acc) ==
    IF i > Len(b) THEN [ok |-> TRUE, text |-> acc]
    ELSE IF b[i] < 128 THEN utf8_from(b, i + 1, Append(acc, b[i]))
    ELSE IF /\ b[i] >= 194 /\ b[i] <= 223
            /\ i + 1 <= Len(b) /\ b[i + 1] >= 128 /\ b[i + 1] <= 191
         THEN utf8_from(b, i + 2, Append(acc, (b[i] - 192) * 64 + (b[i + 1] - 128)))
    ELSE [ok |-> FALSE, text |-> <<>>]

decode_utf8(content) == utf8_from(content, 1, <<>>)

\* bytes.decode("latin-1"): byte k is code point k; never fails.
decode_latin1(content) == [i \in 1..Len(content) |-> content[i]]

\* The try/except around the two decodes; text is a sequence of code points.
decode_file(content) ==
    IF decode_utf8(content).ok THEN decode_utf8(content).text
    ELSE decode_latin1(content)

\* ---------------------------------------------------------------- service

\* The uploads a client sends: "A" in ASCII, U+00E9 in UTF-8, the lone byte
\* 0xE9 (not UTF-8, e-acute in Latin-1), and a truncated two-byte sequence
\* followed by "A".
Files == {<<65>>, <<195, 169>>, <<233>>, <<195, 65>>}

\* Session identifiers: the values str(uuid.uuid4()) can take in a run.
IDs == 1..MaxReqs

Reqs == 1..MaxReqs

Questions == {<<"W", "h", "y", "?">>, <<>>}

\* What the answer completion may return.
Answers == {<<" ", "o", "k", "\n">>}

\* What the follow-up completion may return: a numbered list, and prose with
\* no numbered line.
SuggestionTexts ==
    {<<"1", ".", " ", "W", "h", "y", "?", "\n", "2", ".", " ", "H", "o", "w", "?">>,
     <<"N", "o", "n", "e", ".">>}

VARIABLES
    report_storage,    \* the dict report_storage, in insertion order: a sequence
                       \* of entries [k |-> session id, v |-> report text]
    llm,               \* the global llm: "None" or "client"
    booted,            \* the module body (lines 27-36) has run
    issued,            \* the identifiers uuid4 has returned so far
    req,               \* per request: the handler's locals, position and response
    suggestions_text,  \* parser specification: the argument of parse_suggestions
    parsed             \* parser specification: <<result>> once it has returned

vars == <<report_storage, llm, booted, issued, req, suggestions_text, parsed>>

NoResponse == [status |-> 0, session_id |-> 0, answer |-> <<>>, suggestions |-> <<>>]

Idle ==
    [kind |-> "idle", pc |-> "idle", file |-> <<>>, session_id |-> 0,
     question |-> <<>>, constructed |-> FALSE,
     answer_task |-> "none", suggestions_task |-> "none",
     answer |-> <<>>, followup |-> <<>>, resp |-> NoResponse]

\* raise HTTPException(status_code=...)
HttpError(code) == [NoResponse EXCEPT !.status = code]

\* Mutant of uuid4: identifiers repeat.
uuid4_repeat(used) == IDs

\* uuid.uuid4(): an identifier no earlier call returned (RFC 4122 version 4;
\* the 122 random bits are taken not to repeat within a run).
uuid4(used) == IDs \ used

\* Mutant of NeedsConstruction: the client is constructed on every request.
AlwaysConstruct(client) == TRUE

\* `if llm is None:` of ask_question.
NeedsConstruction(client) == client = "None"

\* asyncio.gather(answer_task, suggestions_task) without return_exceptions:
\* it raises as soon as one task has raised.
GatherRaises(a, s) == a = "failed" \/ s = "failed"

\* gather returns the two results once both tasks are done.
GatherReturns(a, s) == a = "ok" /\ s = "ok"

\* The awaiting handler is resumed.  Both tasks' first steps were queued by
\* create_task before the handler suspended, and the loop runs its ready queue
\* in order, so both have started by the time the handler runs again.
GatherWakes(a, s) ==
    /\ a \notin {"none", "scheduled"} /\ s \notin {"none", "scheduled"}
    /\ GatherRaises(a, s) \/ GatherReturns(a, s)

\* The keys of a dict.
dict_keys(store) == {store[i].k : i \in DOMAIN store}

\* store[sid], for a key of the dict.
dict_get(store, sid) == store[CHOOSE i \in DOMAIN store : store[i].k = sid].v

\* Mutant of dict_set: the dict is rebound to one holding the new entry only.
dict_set_fresh(store, sid, text) == <<[k |-> sid, v |-> text]>>

\* store[sid] = text: a present key keeps its place, a new one goes last.
dict_set(store, sid, text) ==
    IF sid \in dict_keys(store)
    THEN [i \in DOMAIN store |->
            IF store[i].k = sid THEN [k |-> sid, v |-> text] ELSE store[i]]
    ELSE Append(store, [k |-> sid, v |-> text])

\* Mutant of SessionMissing: the membership test is missing.
SessionMissingNever(store, sid) == FALSE

\* session_id not in report_storage
SessionMissing(store, sid) == sid \notin dict_keys(store)

\* Mutant of gather_response: a failure of the follow-up completion is
\* swallowed and the answer returned with what the parser makes of no text.
gather_response_partial(a, s, answer, followup) ==
    IF a = "ok"
    THEN [NoResponse EXCEPT !.status = 200,
                            !.answer = strip(answer),
                            !.suggestions = parse_suggestions(followup)]
    ELSE HttpError(500)

\* The response of ask_question once gather has raised or returned: the
\* except clause, or the parsed suggestions and the stripped answer.
gather_response(a, s, answer, followup) ==
    IF GatherRaises(a, s) THEN HttpError(500)
    ELSE [NoResponse EXCEPT !.status = 200,
                            !.answer = strip(answer),
                            !.suggestions = parse_suggestions(followup)]

ServiceInit ==
    /\ report_storage = <<>>
    /\ llm = "None"
    /\ booted = FALSE
    /\ issued = {}
    /\ req = [r \in Reqs |-> Idle]
    /\ suggestions_text = <<>>
    /\ parsed = <<>>

ParserIdle == UNCHANGED <<suggestions_text, parsed>>

\* Module body: llm = None; try: llm = OllamaLLM(...) except Exception: print.
Startup(ok) ==
    /\ ~booted
    /\ booted' = TRUE
    /\ llm' = IF ok THEN "client" ELSE "None"
    /\ UNCHANGED <<report_storage, issued, req>>
    /\ ParserIdle

\* Requests are numbered in the order the handlers start.
MayBegin(r) ==
    /\ booted
    /\ req[r].kind = "idle"
    /\ \A q \in Reqs : q < r => req[q].kind # "idle"

\* upload_report up to `await file.read()`.
UploadBegin(r, content) ==
    /\ MayBegin(r)
    /\ req' = [req EXCEPT ![r] = [Idle EXCEPT !.kind = "upload", !.pc = "read",
                                              !.file = content]]
    /\ UNCHANGED <<report_storage, llm, booted, issued>>
    /\ ParserIdle

\* upload_report from the return of file.read() to the response: decode,
\* uuid4, store, return; one event-loop step, no await in it.
UploadStore(r) ==
    /\ req[r].kind = "upload" /\ req[r].pc = "read"
    /\ \E sid \in uuid4(issued) :
        /\ issued' = issued \cup {sid}
        /\ report_storage' = dict_set(report_storage, sid, decode_file(req[r].file))
        /\ req' = [req EXCEPT ![r].pc = "done", ![r].session_id = sid,
                              ![r].resp = [NoResponse EXCEPT !.status = 200,
                                                             !.session_id = sid]]
    /\ UNCHANGED <<llm, booted>>
    /\ ParserIdle

\* file.read() raises: except Exception -> HTTPException(500).
UploadFail(r) ==
    /\ req[r].kind = "upload" /\ req[r].pc = "read"
    /\ req' = [req EXCEPT ![r].pc = "done", ![r].resp = HttpError(500)]
    /\ UNCHANGED <<report_storage, llm, booted, issued>>
    /\ ParserIdle

\* ask_question from its start to `await asyncio.gather(...)`: one event-loop
\* step.  ctor_ok is whether OllamaLLM(model="llama3") returns, if it is called.
AskBegin(r, sid, q, ctor_ok) ==
    /\ MayBegin(r)
    /\ LET mine == [Idle EXCEPT !.kind = "ask", !.session_id = sid, !.question = q]
       IN  IF SessionMissing(report_storage, sid)
           THEN \* raise HTTPException(404), outside the try
                /\ req' = [req EXCEPT ![r] = [mine EXCEPT !.pc = "done",
                                                          !.resp = HttpError(404)]]
                /\ llm' = llm
           ELSE IF sid \notin dict_keys(report_storage)
           THEN \* report_storage[session_id] raises KeyError outside the try: the
                \* framework answers 500
                /\ req' = [req EXCEPT ![r] = [mine EXCEPT !.pc = "done",
                                                          !.resp = HttpError(500)]]
                /\ llm' = llm
           ELSE IF NeedsConstruction(llm) /\ ~ctor_ok
           THEN \* the constructor raises inside the try: HTTPException(500)
                /\ req' = [req EXCEPT ![r] = [mine EXCEPT !.pc = "done",
                                                          !.constructed = TRUE,
                                                          !.resp = HttpError(500)]]
                /\ llm' = llm
           ELSE \* both tasks created, the handler suspends in gather
                /\ req' = [req EXCEPT ![r] = [mine EXCEPT
                                !.pc = "gather",
                                !.constructed = NeedsConstruction(llm),
                                !.answer_task = "scheduled",
                                !.suggestions_task = "scheduled"]]
                /\ llm' = "client"
    /\ UNCHANGED <<report_storage, booted, issued>>
    /\ ParserIdle

Tasks == {"answer_task", "suggestions_task"}

\* The first step of a created task: the chain's ainvoke runs up to its first
\* suspension, the request to the backend.
TaskStart(r, t) ==
    /\ req[r].kind = "ask" /\ req[r][t] = "scheduled"
    /\ req' = [req EXCEPT ![r][t] = "running"]
    /\ UNCHANGED <<report_storage, llm, booted, issued>>
    /\ ParserIdle

\* qa_chain.ainvoke returns the completion's text.
AnswerDone(r, text) ==
    /\ req[r].kind = "ask" /\ req[r].answer_task = "running"
    /\ req' = [req EXCEPT ![r].answer_task = "ok", ![r].answer = text]
    /\ UNCHANGED <<report_storage, llm, booted, issued>>
    /\ ParserIdle

\* followup_chain.ainvoke returns the completion's text.
SuggestionsDone(r, text) ==
    /\ req[r].kind = "ask" /\ req[r].suggestions_task = "running"
    /\ req' = [req EXCEPT ![r].suggestions_task = "ok", ![r].followup = text]
    /\ UNCHANGED <<report_storage, llm, booted, issued>>
    /\ ParserIdle

\* A completion raises (backend unreachable, model not loaded, ...).
TaskFail(r, t) ==
    /\ req[r].kind = "ask" /\ req[r][t] = "running"
    /\ req' = [req EXCEPT ![r][t] = "failed"]
    /\ UNCHANGED <<report_storage, llm, booted, issued>>
    /\ ParserIdle

\* ask_question from the return of gather to the response.
AskResume(r) ==
    /\ req[r].kind = "ask" /\ req[r].pc = "gather"
    /\ GatherWakes(req[r].answer_task, req[r].suggestions_task)
    /\ req' = [req EXCEPT
                 ![r].pc = "done",
                 ![r].resp = gather_response(req[r].answer_task, req[r].suggestions_task,
                                             req[r].answer, req[r].followup)]
    /\ UNCHANGED <<report_storage, llm, booted, issued>>
    /\ ParserIdle

Next ==
    \/ \E ok \in BOOLEAN : Startup(ok)
    \/ \E r \in Reqs, content \in Files : UploadBegin(r, content)
    \/ \E r \in Reqs : UploadStore(r)
    \/ \E r \in Reqs : UploadFail(r)
    \/ \E r \in Reqs, sid \in IDs, q \in Questions, ok \in BOOLEAN : AskBegin(r, sid, q, ok)
    \/ \E r \in Reqs, t \in Tasks : TaskStart(r, t)
    \/ \E r \in Reqs, text \in Answers : AnswerDone(r, text)
    \/ \E r \in Reqs, text \in SuggestionTexts : SuggestionsDone(r, text)
    \/ \E r \in Reqs, t \in Tasks : TaskFail(r, t)
    \/ \E r \in Reqs : AskResume(r)

Spec == ServiceInit /\ [][Next]_vars

\* ----------------------------------------------- parser specification

\* Lines a follow-up completion is made of: a header, the numbered items of
\* the specification's example, an indented item whose first letter is its
\* 7th character once trimmed, an item whose first letter is its 8th, items
\* without a question mark of 15 and of 10 characters, an unnumbered question.
LineHeader ==
    <<"S","u","r","e",","," ","h","e","r","e"," ","a","r","e"," ","t","h","r","e","e",
      " ","q","u","e","s","t","i","o","n","s",":">>

LineShort ==
    <<"1",")"," ","S","h","o","r","t">>

LineFirm ==
    <<"2",")"," ","A","r","e"," ","d","e","a","d","l","i","n","e","s"," ","f","i","r",
      "m","?">>

LineBudget ==
    <<"3",")"," ","B","u","d","g","e","t","?">>

LineSeventh ==
    <<" "," ","1",")"," ","-","-"," ","W","h","a","t"," ","n","e","x","t","?"," ">>

LineEighth ==
    <<"1",")"," ","-","-","-"," ","W","h","a","t"," ","n","e","x","t","?">>

LinePlain ==
    <<"2","."," ","T","i","m","e","l","i","n","e"," ","s","t","a","t","u","s">>

LineTen ==
    <<"3","."," ","N","e","x","t"," ","s","t","e","p","s">>

LineWhy ==
    <<"W","h","y","?">>

Lines ==
    {LineHeader, LineShort, LineFirm, LineBudget, LineSeventh, LineEighth,
     LinePlain, LineTen, LineWhy}

\* "\n".join(ls)
RECURSIVE join_lines(_)
join_lines(ls) ==
    IF ls = <<>> THEN <<>>
    ELSE IF Len(ls) = 1 THEN Head(ls)
    ELSE Head(ls) \o <<"\n">> \o join_lines(Tail(ls))

\* The characters of the exhaustively generated short texts.
Chars == {"1", "a", "?", "-", " ", "\n"}

\* The texts parse_suggestions is applied to: every text of up to MaxLines of
\* the lines above, and every text of up to MaxChars characters.
Inputs ==
    {join_lines(ls) : ls \in UNION {[1..n -> Lines] : n \in 0..MaxLines}}
    \cup UNION {[1..n -> Chars] : n \in 0..MaxChars}

ParserInit ==
    /\ report_storage = <<>>
    /\ llm = "None"
    /\ booted = FALSE
    /\ issued = {}
    /\ req = [r \in Reqs |-> Idle]
    /\ suggestions_text \in Inputs
    /\ parsed = <<>>

\* suggestions = parse_suggestions(suggestions_text)
ParseCall ==
    /\ parsed = <<>>
    /\ parsed' = <<parse_suggestions(suggestions_text)>>
    /\ UNCHANGED <<report_storage, llm, booted, issued, req, suggestions_text>>

ParserNext == ParseCall

SpecParser == ParserInit /\ [][ParserNext]_vars

\* ------------------------------------------------------ claims: the service

Uploaded(r) == req[r].kind = "upload" /\ req[r].resp.status = 200

Asked(r) == req[r].kind = "ask"

Answered(r) == req[r].resp.status # 0

\* C1: every session id a successful upload returned is a key of the report
\* store and maps to the text decoded from that upload's bytes, in every state
\* after the upload, whatever uploads and questions follow.
C1_UploadedTextKept ==
    \A r \in Reqs :
        Uploaded(r) =>
            /\ req[r].resp.session_id \in dict_keys(report_storage)
            /\ dict_get(report_storage, req[r].resp.session_id) = decode_file(req[r].file)

\* C1 witness: an upload succeeded, and after it another upload stored a
\* different text; the first entry is still the first upload's.
C1_Witness ==
    \E r1, r2 \in Reqs :
        /\ r1 # r2 /\ Uploaded(r1) /\ Uploaded(r2)
        /\ decode_file(req[r1].file) # decode_file(req[r2].file)
        /\ Len(report_storage) = 2
        /\ report_storage[1] = [k |-> req[r1].resp.session_id,
                                v |-> decode_file(req[r1].file)]

\* C2: a question whose session id is not in the report store is answered 404
\* in the step that starts it, for every question and with the client present
\* or absent: the client is not constructed, no completion is created, and the
\* 404 is final.
C2_UnknownSessionIs404 ==
    [][\A r \in Reqs :
         /\ (/\ req[r].kind = "idle" /\ req'[r].kind = "ask"
             /\ req'[r].session_id \notin dict_keys(report_storage))
            => /\ req'[r].resp = HttpError(404)
               /\ req'[r].pc = "done"
               /\ llm' = llm
               /\ ~req'[r].constructed
               /\ req'[r].answer_task = "none" /\ req'[r].suggestions_task = "none"
         /\ (Asked(r) /\ req[r].resp.status = 404) => req'[r] = req[r]]_vars

\* C2 witness: after a failed startup construction (client absent) a non-empty
\* question for an unknown session was answered 404, with a report stored.
C2_Witness ==
    \E r \in Reqs :
        /\ Asked(r) /\ req[r].resp.status = 404 /\ req[r].question # <<>>
        /\ booted /\ llm = "None"
        /\ report_storage # <<>>

\* C3: a question for a known session is answered 200 only with both
\* completions returned, carrying the stripped answer and the parsed
\* suggestions; when a completion or the client construction has raised, the
\* answer is a 500 that carries no answer and no suggestions.
C3_AllOrNothing ==
    \A r \in Reqs :
        (Asked(r) /\ Answered(r)) =>
            /\ req[r].resp.status \in {200, 404, 500}
            /\ req[r].resp.status = 200 =>
                  /\ req[r].answer_task = "ok" /\ req[r].suggestions_task = "ok"
                  /\ req[r].resp.answer = strip(req[r].answer)
                  /\ req[r].resp.suggestions = parse_suggestions(req[r].followup)
            /\ (\/ req[r].answer_task = "failed"
                \/ req[r].suggestions_task = "failed"
                \/ (req[r].constructed /\ req[r].answer_task = "none"))
               => req[r].resp = HttpError(500)

\* C3 witness: the answer completion returned, the follow-up completion
\* raised, and the request was answered 500.
C3_Witness ==
    \E r \in Reqs :
        /\ Asked(r) /\ req[r].resp.status = 500
        /\ req[r].answer_task = "ok" /\ req[r].suggestions_task = "failed"

\* C5: however the uploads interleave at `await file.read()`, the successful
\* ones hold pairwise distinct session ids, the store has exactly one entry per
\* successful upload, and each id maps to the text of its own upload.
C5_ConcurrentUploads ==
    /\ \A r1, r2 \in Reqs :
          (r1 # r2 /\ Uploaded(r1) /\ Uploaded(r2))
              => req[r1].resp.session_id # req[r2].resp.session_id
    /\ Len(report_storage) = Cardinality({r \in Reqs : Uploaded(r)})
    /\ Cardinality(dict_keys(report_storage)) = Len(report_storage)
    /\ \A r \in Reqs :
          Uploaded(r) =>
              \E i \in DOMAIN report_storage :
                  report_storage[i] = [k |-> req[r].resp.session_id,
                                       v |-> decode_file(req[r].file)]

\* C5 witness: two uploads overlapped and both succeeded: the one that started
\* later stored its report first.
C5_Witness ==
    \E r1, r2 \in Reqs :
        /\ r1 < r2 /\ Uploaded(r1) /\ Uploaded(r2)
        /\ Len(report_storage) = 2
        /\ report_storage[1].k = req[r2].resp.session_id
        /\ report_storage[2].k = req[r1].resp.session_id

\* C6: a request waiting in gather has created both completions, and no
\* response, success or failure, exists while one of the request's two
\* completions is still scheduled or running.
C6_ResponseAfterBothDone ==
    \A r \in Reqs :
        Asked(r) =>
            /\ req[r].pc = "gather" =>
                  req[r].answer_task # "none" /\ req[r].suggestions_task # "none"
            /\ Answered(r) =>
                  /\ req[r].answer_task \notin {"scheduled", "running"}
                  /\ req[r].suggestions_task \notin {"scheduled", "running"}

\* C9: the client changes only in the startup construction or in a request
\* that constructs it; a question for a known session constructs the client
\* in its first step exactly when it finds it absent, before any completion is
\* created; and completions exist only with the client present.
C9_LazyClient ==
    [][/\ llm' # llm => \/ ~booted /\ booted'
                        \/ \E r \in Reqs : req[r].kind = "idle" /\ req'[r].constructed
       /\ booted => booted'
       /\ \A r \in Reqs :
            /\ (/\ req[r].kind = "idle" /\ req'[r].kind = "ask"
                /\ req'[r].session_id \in dict_keys(report_storage))
               => /\ req'[r].constructed <=> llm = "None"
                  /\ llm = "client" => llm' = "client"
                  /\ req'[r].answer_task # "none" => llm' = "client"
            /\ req[r].kind # "idle" => req'[r].constructed = req[r].constructed
            /\ req'[r].answer_task # "none" \/ req'[r].suggestions_task # "none"
               => llm' = "client"]_vars

\* C9 witness: the startup construction failed, and the first question for a
\* known session constructed the client and then created its completions.
C9_Witness ==
    \E r \in Reqs :
        /\ Asked(r) /\ req[r].constructed /\ llm = "client"
        /\ req[r].answer_task = "scheduled" /\ req[r].suggestions_task = "scheduled"

\* ------------------------------------------------------- claims: the parser

\* The lines the loop of parse_suggestions runs over.
InputLines == split_lines(suggestions_text)

\* A line with a digit in its first 2 characters.
Numbered(line) == \E i \in 1..Len(line) : i <= 2 /\ isdigit(line[i])

Returned == parsed # <<>>

\* C4: parse_suggestions returns, for every text, a sequence of at most 3
\* non-empty strings, and it returns the fallback triple when the text is empty
\* or none of its non-empty (trimmed) lines has a digit in its first 2
\* characters.
C4_TotalWithFallback ==
    Returned =>
        LET lines == InputLines
        IN  /\ Len(parsed[1]) \in 1..3
            /\ \A k \in 1..Len(parsed[1]) : Len(parsed[1][k]) > 0
            /\ (\A i \in 1..Len(lines) : ~Numbered(lines[i]))
                  => parsed[1] = fallback_suggestions

\* C4 witness: a text of four unnumbered lines, each of which would pass the
\* acceptance test, came back as the fallback triple.
C4_Witness ==
    /\ Returned
    /\ suggestions_text = join_lines(<<LineHeader, LineWhy, LineHeader, LineWhy>>)
    /\ parsed[1] = fallback_suggestions

\* The first 0-based index below n at which the line has a letter, or -1.
FirstAlphaBelow(line, n) ==
    IF \E i \in 0..(n - 1) : i < Len(line) /\ isalpha(line[i + 1])
    THEN CHOOSE i \in 0..(n - 1) :
            /\ i < Len(line) /\ isalpha(line[i + 1])
            /\ \A j \in 0..(i - 1) : ~isalpha(line[j + 1])
    ELSE -1

\* The prefix strip with a window of n characters.
StripWithin(line, n) ==
    IF FirstAlphaBelow(line, n) >= 0 THEN SliceFrom(line, FirstAlphaBelow(line, n))
    ELSE line

\* The acceptance rule: a question mark, or more than 10 characters.
Acceptable(cleaned) == contains(cleaned, "?") \/ Len(cleaned) > 10

\* C7: the prefix strip looks at the first 6 characters only: a numbered line
\* is cut at its first letter when that letter is among its first 6
\* characters and is kept whole otherwise, and a text of one such line that
\* is accepted comes back as that line, so stripped.
C7_SixCharacterWindow ==
    Returned =>
        LET lines == InputLines
        IN  /\ \A i \in 1..Len(lines) :
                  Numbered(lines[i]) => clean_line(lines[i]) = StripWithin(lines[i], 6)
            /\ (/\ Len(lines) = 1 /\ Numbered(lines[1])
                /\ Acceptable(StripWithin(lines[1], 6)))
                  => parsed[1] = <<StripWithin(lines[1], 6)>>

\* The cleaned numbered lines, in input order.
RECURSIVE CleanedNumbered(_)
CleanedNumbered(lines) ==
    IF lines = <<>> THEN <<>>
    ELSE (IF Numbered(Head(lines)) THEN <<clean_line(Head(lines))>> ELSE <<>>)
         \o CleanedNumbered(Tail(lines))

ExampleText == join_lines(<<LineHeader, LineShort, LineFirm, LineBudget>>)

\* C8: a cleaned line is kept exactly when it has a question mark or is longer
\* than 10 characters: for a text whose lines are all numbered the result is
\* the first 3 of the cleaned lines that pass this test (the fallback if none
\* does), and the example text gives "Are deadlines firm?", "Budget?".
C8_AcceptanceRule ==
    Returned =>
        LET lines == InputLines
            kept == SelectSeq(CleanedNumbered(lines), Acceptable)
        IN  /\ (\A i \in 1..Len(lines) : Numbered(lines[i]))
                  => parsed[1] = IF kept = <<>> THEN fallback_suggestions
                                 ELSE SliceTo(kept, 3)
            /\ parsed[1] # fallback_suggestions
                  => \A k \in 1..Len(parsed[1]) : Acceptable(parsed[1][k])
            /\ suggestions_text = ExampleText
                  => parsed[1] = <<SliceFrom(LineFirm, 3), SliceFrom(LineBudget, 3)>>

\* C8 witness: the example text was parsed, its "Short" item dropped.
C8_Witness ==
    /\ Returned
    /\ suggestions_text = ExampleText
    /\ Len(parsed[1]) = 2

\* The indices of the numbered lines whose cleaned text is accepted, from
\* index i on, in input order.
RECURSIVE NumberedAccepted(_, _)
NumberedAccepted(lines, i) ==
    IF i > Len(lines) THEN <<>>
    ELSE (IF Numbered(lines[i]) /\ accepts(clean_line(lines[i])) THEN <<i>> ELSE <<>>)
         \o NumberedAccepted(lines, i + 1)

\* C10: a result other than the fallback triple is made of cleaned numbered
\* lines only: it is the first (up to) 3 accepted numbered lines in input
\* order, also when accepted unnumbered lines follow the third.
C10_OnlyNumberedLines ==
    (Returned /\ parsed[1] # fallback_suggestions) =>
        LET lines == InputLines
            from == NumberedAccepted(lines, 1)
        IN  /\ Len(parsed[1]) = (IF Len(from) < 3 THEN Len(from) ELSE 3)
            /\ \A k \in 1..Len(parsed[1]) :
                  /\ Numbered(lines[from[k]])
                  /\ parsed[1][k] = clean_line(lines[from[k]])

\* C10 witness: three numbered items were accepted and an unnumbered question
\* after them, which the loop collects, is not in the result.
C10_Witness ==
    /\ Returned
    /\ suggestions_text = join_lines(<<LineFirm, LineBudget, LinePlain, LineWhy>>)
    /\ Len(loop_lines(<<>>, InputLines)) = 4
    /\ parsed[1] = <<SliceFrom(LineFirm, 3), SliceFrom(LineBudget, 3),
                     SliceFrom(LinePlain, 3)>>

====
